---------------------------- MODULE Spec2Model ----------------------------
(***************************************************************************)
(* A state-machine model of chemtools/topology/qtaim.py: the construction  *)
(* of the QTAIM surface (qtaim_surface), its ray tracer                    *)
(* (solve_for_basin_bnd_pt), the gradient-flow integrator (gradient_path), *)
(* the isosurface solver (solve_for_isosurface_pt) and the maxima locator  *)
(* (_optimize_centers), and the methods of the SurfaceQTAIM it returns.    *)
(* Two small objects of the package have specifications of their own:     *)
(* QuadraticGlobalTool of chemtools/tools/glob.py (GlobSpec) and           *)
(* EigenDescriptor of chemtools/topology/eigenvalues.py (EigenSpec).       *)
(*                                                                         *)
(* Numbers.  Every float of the program that is a length or a density is   *)
(* an integer number of units of 5e-5 (so 1e-3 is 20 and 1e-1 is 2000);    *)
(* the inputs are chosen so that every quotient the program forms on them  *)
(* is exact.  The coordinates of the maxima, which the program only uses   *)
(* in the duplicate test, are integers in units of 1e-9 on a line.         *)
(*                                                                         *)
(* Geometry.  A ray runs from a maximum along a unit direction, so a point *)
(* of the ray is its radius and the norm of the difference of two points   *)
(* of one ray is the difference of their radii.  The density and gradient  *)
(* functions are inputs of the program: along one ray they are given by a  *)
(* "field", which tells the density at a radius and, for the gradient path *)
(* started at a radius, at which attempt the integrator converges and how  *)
(* far from every maximum its end point lies.                              *)
(***************************************************************************)
EXTENDS Integers, Sequences, FiniteSets, TLC

VARIABLES
    cfg,      \* the arguments of the top-level call (never changes)
    pc,       \* the position of the program
    err,      \* the exception the call ended in, "none" while there is none
    maximas,  \* the maxima (line coordinates, units of 1e-9)
    fr,       \* the locals of the running qtaim_surface invocation
    stack,    \* the suspended invocations (the caller of the refinement call)
    ray,      \* the locals of solve_for_basin_bnd_pt and the field of its ray
    gp,       \* the locals of gradient_path
    called,   \* which collaborators have been invoked so far
    hist,     \* observations of the run that the program itself does not keep
    surf,     \* the SurfaceQTAIM the top-level call returned, NoSurf before
    out,      \* the result of the last method called on surf
    tool,     \* the QuadraticGlobalTool object and the last property read of it
    eigen     \* the EigenDescriptor object and the last result of its rank

vars == <<cfg, pc, err, maximas, fr, stack, ray, gp, called, hist, surf, out, tool, eigen>>

-----------------------------------------------------------------------------
(* Program constants. *)

\* 1e-1, the capture radius around another maximum (qtaim.py:347, 355).
CaptureRadius == 2000
\* 1e-3, the lower bound of a refined ray that starts at the first sample (qtaim.py:359).
MinRad == 20
\* ss_ray /= 10.0 (qtaim.py:361).
StepShrink == 10
\* max_tries=10 (qtaim.py:236).
MaxTries == 10
\* t_inc=200 (qtaim.py:235); pseudo-time is in units of 0.05, in which the
\* horizon 1000 * radius of line 339 is the radius in its own units.
TInc == 4000
\* the least horizon 75 of a ray's gradient path (qtaim.py:339)
MinHorizon == 1500
\* the horizon 10 of the maxima locator's gradient path (qtaim.py:383)
LocHorizon == 200
\* 1e-8 in units of 1e-9 (qtaim.py:391).
DupTol == 10
\* distance[diag] = 1.0 in units of 1e-9 (qtaim.py:390).
DiagFill == 1000000000
\* seven new points per vertex of the IAS hull (qtaim.py:208).
PtsPerVertex == 7
\* a convex hull in three dimensions needs four points (ConvexHull, qtaim.py:200).
HullMinPts == 4

(* Bounds of the model. *)

\* the most solve_ivp calls of one gradient_path that the model follows
MaxCalls == 12
\* the most maxima
MaxMaxima == 3
\* the most base directions of a world whose rays are all traced from rich fields
MaxAng == 2

\* "no value" (None) of an integer local
None == -1

-----------------------------------------------------------------------------
(* Python and numpy helpers. *)

Abs(x) == IF x < 0 THEN -x ELSE x

Max2(a, b) == IF a > b THEN a ELSE b

\* seq[i] of Python for a 0-based i, negative i counting from the end;
\* None when Python raises IndexError.
PyIndex(seq, i) ==
    IF i >= 0 /\ i < Len(seq) THEN seq[i + 1]
    ELSE IF i < 0 /\ -i <= Len(seq) THEN seq[Len(seq) + i + 1]
    ELSE None

\* np.delete(seq, i, axis=0) for a 0-based i.
NpDelete(seq, i) ==
    [k \in 1..(Len(seq) - 1) |-> IF k <= i THEN seq[k] ELSE seq[k + 1]]

\* np.arange(start, stop, step) for a positive step.
NpArange(start, stop, step) ==
    IF stop <= start THEN << >>
    ELSE [k \in 1..(((stop - start - 1) \div step) + 1) |-> start + (k - 1) * step]

\* np.mean(np.diff(seq)): the differences telescope. numpy gives nan for fewer
\* than two points; the model gives 0, which no input of the model ever uses.
MeanDiff(seq) ==
    IF Len(seq) < 2 THEN 0 ELSE (seq[Len(seq)] - seq[1]) \div (Len(seq) - 1)

\* seq[seq > bound] of numpy.
FilterGreater(seq, bound) == SelectSeq(seq, LAMBDA x : x > bound)

-----------------------------------------------------------------------------
(* The inputs: the arguments of qtaim_surface and the fields of the rays. *)

\* The value of the argument refine: a bool, an int, or anything else.
RBool(b) == [kind |-> "bool", val |-> IF b THEN 1 ELSE 0]
RInt(k) == [kind |-> "int", val |-> k]
ROther == [kind |-> "other", val |-> 0]

\* beta_sphere=None, and a list of radii.
NoBeta == [given |-> FALSE, vals |-> << >>]
Beta(vals) == [given |-> TRUE, vals |-> vals]

\* Distances of the end point of a gradient path from a maximum: inside the
\* capture radius; outside it but inside a beta sphere of radius BetaR; far.
Near == CaptureRadius \div 2
Mid == 2 * CaptureRadius + Near
Far == 45 * CaptureRadius
\* Radii of beta spheres: one that cuts no grid radius, one that cuts the
\* first radius of the grids, one that cuts them all.
BetaSmall == 3 * CaptureRadius
BetaR == 15 * CaptureRadius
BetaHuge == 35 * CaptureRadius

\* Radial grids (rgrids.points): strictly increasing positive radii.
GridUniform == <<20000, 40000, 60000>>
GridUneven == <<20000, 40000, 64000>>
GridFine == <<10000, 20000, 30000, 40000, 50000>>

\* The density along a ray: max(0, d0 - sn * r), decreasing in the radius.
Dens(f, r) == Max2(0, f.d0 - f.sn * r)

\* Is the gradient path started at radius r of the ray one that ends at another
\* maximum (TRUE) or at the ray's own maximum (FALSE)?
Switched(f, r) == f.rho > 0 /\ r >= f.rho

\* The distances of the end point of the converged gradient path started at
\* radius r of a ray of basin b (0-based) from the n maxima, in their order.
EndDists(f, r, b, n) ==
    IF Switched(f, r) THEN f.capt
    ELSE [k \in 1..n |-> IF k = b + 1 THEN 0 ELSE Far]

\* The same for the end point of an attempt that did not converge: it lies
\* f.ncd from the ray's own maximum and far from the others.
StallDists(f, b, n) == [k \in 1..n |-> IF k = b + 1 THEN f.ncd ELSE Far]

\* Capture vectors of a ray of basin b among n maxima: the own maximum is far,
\* every other one is near, in beta-sphere range or far, and not all are far.
\* With a single maximum the path can only end at that maximum.
CaptVecs(n, b) ==
    IF n = 1 THEN {<<Near>>}
    ELSE {v \in [1..n -> {Near, Mid, Far}] :
            /\ v[b + 1] = Far
            /\ \E k \in 1..n : v[k] # Far}

\* The capture vector "near maximum m (0-based) only".
NearOnly(n, m) == [k \in 1..n |-> IF k = m + 1 THEN Near ELSE Far]

\* A field whose ray escapes: no switch, density 60000 - r.
OasField(n, b) ==
    [rho |-> 0, capt |-> NearOnly(n, b), conv |-> 1, ncd |-> Far,
     d0 |-> 60000, sn |-> 1]

\* A field whose ray is captured by maximum m from radius 30000 on.
IasField(n, m) ==
    [rho |-> 30000, capt |-> NearOnly(n, m), conv |-> 1, ncd |-> Far,
     d0 |-> 60000, sn |-> 1]

\* The line coordinates of the seeds: 10 apart is exactly the tolerance.
Centers(n) == [k \in 1..n |-> (k - 1) * DupTol]

-----------------------------------------------------------------------------
(* The state after construction. *)

NoRay ==
    [f |-> OasField(1, 0), radial |-> << >>, rad_pts |-> << >>, ss_ray |-> 0,
     i_ray |-> 0, found |-> FALSE, to_inf |-> FALSE, index_iso |-> None,
     bnd_pt |-> None, basin_id |-> None, y |-> << >>, passes |-> 0, l_bnd |-> None,
     u_bnd |-> None]

\* y0 is the start of the next solve_ivp call: 0 for the point pt that
\* gradient_path was given, k for the final point of its k-th call.
NoGp == [numb_times |-> 0, calls |-> 0, t0 |-> 0, t1 |-> 0, i |-> 0, acc |-> << >>,
         conv |-> 0, pos |-> 0, y0 |-> 0]

\* No SurfaceQTAIM yet, and no method called on it yet.
NoSurf == [made |-> FALSE]
NoOut == [op |-> "none"]
\* No QuadraticGlobalTool object was made.
NoTool == [made |-> FALSE]
\* No EigenDescriptor object was made.
NoEigen == [made |-> FALSE, err |-> "none"]

\* The locals of an invocation qtaim_surface(rgrids, angular, ..., optimize_centers,
\* refine) before line 455; angular is an integer degree ("int") or an array
\* of directions ("array"), and nang is the number of directions it stands for.
NewFrame(angular, nang, refine, optimize) ==
    [angular |-> angular, nang |-> nang, refine |-> refine, optimize |-> optimize,
     i_maxima |-> 0, i_ang |-> 0,
     r_func |-> << >>, oas |-> << >>, ias |-> << >>, basin_ias |-> << >>,
     truth |-> << >>, ref_none |-> TRUE, refined_ang |-> << >>]

-----------------------------------------------------------------------------
(* qtaim_surface, lines 455-468: validation and the maxima locator. *)

\* ConfigError without the test of lines 457-458: the validation C1 is not
\* about.
ConfigErrorNoCutoff(refine, c) ==
    IF refine.kind \notin {"bool", "int"} THEN "TypeError"
    ELSE IF c.beta.given /\ Len(c.centers) # Len(c.beta.vals) THEN "BetaLenError"
    ELSE "none"

\* Lines 455-463: the exception the arguments raise, "none" if they are valid.
ConfigError(refine, c) ==
    IF refine.kind \notin {"bool", "int"} THEN "TypeError"
    ELSE IF c.dens_cutoff > c.iso_val THEN "CutoffError"
    ELSE IF c.beta.given /\ Len(c.centers) # Len(c.beta.vals) THEN "BetaLenError"
    ELSE "none"

\* An exception handled at line 531: the caller would go on with what the
\* refinement invocation had gathered. Not what the program does (C9).
PropagateToCaller(stk) == IF stk = << >> THEN "error" ELSE "return"

\* Where an exception raised while the invocations stk are suspended takes
\* the program: no invocation handles any (line 531 is inside no try), so the
\* top-level call ends in it.
Propagate(stk) == "error"

Validate ==
    /\ pc = "validate"
    /\ LET e == ConfigError(fr.refine, cfg) IN
         /\ err' = e
         /\ pc' = IF e # "none" THEN Propagate(stack)
                  ELSE IF fr.optimize THEN "optimize" ELSE "setup"
    /\ gp' = NoGp
    /\ UNCHANGED <<eigen, tool, surf, out, cfg, maximas, fr, stack, ray, called, hist>>

\* The iteration with lines 266-267 left out: the next attempt starts over
\* from the same point at the same time (C25).
GPStepSameStart(g, conv, betaSet, inBeta) ==
    IF ~(g.numb_times < MaxTries)
    THEN [kind |-> IF g.numb_times = MaxTries THEN "raise" ELSE "none", g |-> g]
    ELSE LET g1 == [g EXCEPT !.calls = @ + 1] IN
         IF conv = g.numb_times + 1 THEN [kind |-> "return_conv", g |-> g1]
         ELSE IF betaSet
              THEN IF inBeta THEN [kind |-> "return_beta", g |-> g1]
                   ELSE [kind |-> "loop", g |-> g1]
              ELSE [kind |-> "loop", g |-> [g1 EXCEPT !.numb_times = @ + 1]]

\* One iteration of the while loop of gradient_path (lines 242-271) on the
\* locals g: conv is the attempt at which solve_ivp's solution passes the test
\* of line 254 (0: at none), betaSet is beta_sphere_maxima != -inf, inBeta is
\* radial < beta_sphere_maxima for the end point of an attempt that fails it.
GPStep(g, conv, betaSet, inBeta) ==
    IF ~(g.numb_times < MaxTries)
    THEN [kind |-> IF g.numb_times = MaxTries THEN "raise" ELSE "none", g |-> g]
    ELSE LET g1 == [g EXCEPT !.calls = @ + 1] IN
         IF conv = g.numb_times + 1 THEN [kind |-> "return_conv", g |-> g1]
         ELSE IF betaSet
              THEN IF inBeta THEN [kind |-> "return_beta", g |-> g1]
                   ELSE [kind |-> "loop", g |-> g1]
              ELSE [kind |-> "loop",
                    g |-> [g1 EXCEPT !.t0 = g.t1, !.t1 = g.t1 + TInc,
                                     !.y0 = g1.calls, !.numb_times = @ + 1]]

\* _optimize_centers, lines 382-384: the gradient path of the next seed starts.
\* Where it converges and at which attempt is the gradient field's doing.
OptStart ==
    /\ pc = "optimize"
    /\ \E conv \in cfg.loc_conv, shift \in cfg.loc_shift :
          gp' = [NoGp EXCEPT !.i = gp.i, !.acc = gp.acc, !.t1 = LocHorizon,
                             !.conv = conv, !.pos = cfg.centers[gp.i + 1] + shift]
    /\ pc' = "opt_gp"
    /\ called' = called \cup {"locator"}
    /\ hist' = IF gp.i = 0 THEN [hist EXCEPT !.locator = @ + 1] ELSE hist
    /\ UNCHANGED <<eigen, tool, surf, out, cfg, err, maximas, fr, stack, ray>>

\* _optimize_centers, lines 383-386: gradient_path without a beta sphere.
OptGP ==
    /\ pc = "opt_gp"
    /\ gp.calls < MaxCalls
    /\ LET s == GPStep(gp, gp.conv, FALSE, FALSE) IN
         /\ called' = IF s.kind \in {"raise", "none"} THEN called
                       ELSE called \cup {"integrator"}
         /\ CASE s.kind = "loop" ->
                   /\ gp' = s.g
                   /\ UNCHANGED <<pc, err>>
              [] s.kind \in {"raise", "none"} ->
                   /\ gp' = s.g
                   /\ pc' = Propagate(stack)
                   /\ err' = IF s.kind = "raise" THEN "ConvergenceError" ELSE "TypeError"
              [] OTHER ->
                   /\ gp' = [s.g EXCEPT !.i = @ + 1, !.acc = Append(@, gp.pos)]
                   /\ pc' = IF gp.i + 1 = Len(cfg.centers) THEN "dups" ELSE "optimize"
                   /\ UNCHANGED err
    /\ UNCHANGED <<eigen, tool, surf, out, cfg, maximas, fr, stack, ray, hist>>

\* cdist alone, without line 390 (C10).
DistanceRaw(m, i, j) == Abs(m[i] - m[j])

\* Lines 389-390: cdist with the diagonal set to one.
Distance(m, i, j) == IF i = j THEN DiagFill ELSE Abs(m[i] - m[j])

\* Line 391: np.any(distance < 1e-8).
HasDuplicate(m) ==
    \E i \in 1..Len(m), j \in 1..Len(m) : Distance(m, i, j) < DupTol

\* _optimize_centers, lines 389-393, and the assignment of line 468.
CheckDuplicates ==
    /\ pc = "dups"
    /\ IF HasDuplicate(gp.acc)
       THEN /\ pc' = Propagate(stack)
            /\ err' = "DuplicateMaxima"
            /\ UNCHANGED maximas
       ELSE /\ pc' = "setup"
            /\ maximas' = gp.acc
            /\ UNCHANGED err
    /\ UNCHANGED <<eigen, tool, surf, out, cfg, fr, stack, ray, gp, called, hist>>

\* The truth value Python gives the argument refine (line 479).
Truthy(refine) == refine.kind # "other" /\ refine.val # 0

\* Lines 470-480.
Setup ==
    /\ pc = "setup"
    /\ LET n == Len(maximas) IN
         fr' = [fr EXCEPT !.r_func = [k \in 1..n |-> [d \in 1..fr.nang |-> 0]],
                          !.oas = [k \in 1..n |-> << >>],
                          !.ias = [k \in 1..n |-> << >>],
                          !.basin_ias = [k \in 1..n |-> << >>],
                          !.truth = [k \in 1..n |-> << >>],
                          !.ref_none = ~Truthy(fr.refine),
                          !.refined_ang = << >>,
                          !.i_maxima = 0]
    /\ pc' = "basin"
    /\ UNCHANGED <<eigen, tool, surf, out, cfg, err, maximas, stack, ray, gp, called, hist>>

\* maxima_to_do as range(0, numb_maximas) whatever refine is (C21).
InMaximaToDoAll(refine, i, n) == i \in 0..(n - 1)

\* Line 480: is basin i (0-based) one of maxima_to_do?
InMaximaToDo(refine, i, n) ==
    IF refine.kind = "bool" THEN i \in 0..(n - 1) ELSE i = refine.val

\* Lines 481-491: the head of the loop over the maxima.
Basin ==
    /\ pc = "basin"
    /\ IF fr.i_maxima >= Len(maximas)
       THEN /\ pc' = "return"
            /\ UNCHANGED fr
       ELSE IF InMaximaToDo(fr.refine, fr.i_maxima, Len(maximas))
       THEN /\ pc' = IF fr.nang > 0 THEN "ang" ELSE "refine"
            /\ fr' = [fr EXCEPT !.i_ang = 0]
       ELSE /\ pc' = "basin"
            /\ fr' = [fr EXCEPT !.i_maxima = @ + 1]
    /\ UNCHANGED <<eigen, tool, surf, out, cfg, err, maximas, stack, ray, gp, called, hist>>

-----------------------------------------------------------------------------
(* The fields the rays of a run are traced in. *)

\* Fields of the rays of basin b in a world of mode "rich". The world fixes
\* which of the field's parts vary (c.rhos, c.capts, c.convs, c.ncds, c.denss).
RichFields(c, b) ==
    {[rho |-> rho, capt |-> capt, conv |-> conv, ncd |-> ncd,
      d0 |-> dd[1], sn |-> dd[2]] :
        rho \in c.rhos, capt \in (IF c.capts = "all" THEN CaptVecs(c.n, b)
                                  ELSE {NearOnly(c.n, (b + 1) % c.n)}),
        conv \in c.convs, ncd \in c.ncds, dd \in c.denss}

\* The maximum after b in the sequence, cyclically: the neighbour of the
\* simple fields.
NextMax(n, b) == (b + 1) % n

\* The field of the direction i_ang of basin b at recursion depth depth:
\*   "rich":   any field of RichFields;
\*   "simple": the ray escapes, or (with a neighbour) is captured by one;
\*   "split":  the first c.split base directions are captured by the next
\*             maximum and the others escape; of the refinement directions
\*             every second one is captured, and the gradient paths of
\*             the direction c.rfail never converge.
RayFields(c, b, i_ang, depth) ==
    CASE c.mode = "rich" -> RichFields(c, b)
      [] c.mode = "simple" ->
            {OasField(c.n, b)} \cup
            {IasField(c.n, m) : m \in {k \in 0..(c.n - 1) : k # b}}
      [] OTHER ->
            IF depth > 0 /\ i_ang = c.rfail
            THEN {[OasField(c.n, b) EXCEPT !.conv = 0]}
            ELSE IF (depth = 0 /\ i_ang < c.split) \/ (depth > 0 /\ i_ang % 2 = 0)
            THEN {IasField(c.n, NextMax(c.n, b))}
            ELSE {OasField(c.n, b)}

-----------------------------------------------------------------------------
(* solve_for_basin_bnd_pt and gradient_path along one ray. *)

\* Lines 493-504 and 315-326: the next direction of the basin; its ray starts.
RayStart ==
    /\ pc = "ang"
    /\ \E f \in RayFields(cfg, fr.i_maxima, fr.i_ang, Len(stack)) :
         LET radial == IF cfg.beta.given
                       THEN FilterGreater(cfg.rgrid, cfg.beta.vals[fr.i_maxima + 1])
                       ELSE cfg.rgrid
         IN ray' = [NoRay EXCEPT !.f = f, !.radial = radial, !.rad_pts = radial,
                                 !.ss_ray = MeanDiff(radial)]
    /\ pc' = "while"
    /\ gp' = NoGp
    /\ UNCHANGED <<eigen, tool, surf, out, cfg, err, maximas, fr, stack, called, hist>>

\* Lines 327-331: the ray and its densities; line 330 reads ray[0].
WhileHead ==
    /\ pc = "while"
    /\ called' = called \cup {"density"}
    /\ IF Len(ray.rad_pts) = 0
       THEN /\ pc' = Propagate(stack)
            /\ err' = "IndexError"
            /\ UNCHANGED ray
       ELSE /\ pc' = "for"
            /\ ray' = [ray EXCEPT !.i_ray = 0, !.passes = @ + 1]
            /\ UNCHANGED err
    /\ UNCHANGED <<eigen, tool, surf, out, cfg, maximas, fr, stack, gp, hist>>

\* Lines 334-343 and 366-371: the sample i_ray of the ray.
ForSample ==
    /\ pc = "for"
    /\ LET r == ray.rad_pts[ray.i_ray + 1] IN
         IF Dens(ray.f, r) > cfg.dens_cutoff
         THEN /\ gp' = [NoGp EXCEPT !.t1 = Max2(r, MinHorizon)]
              /\ pc' = "gp"
              /\ UNCHANGED ray
         ELSE /\ ray' = [ray EXCEPT !.to_inf = TRUE, !.index_iso = ray.i_ray]
              /\ pc' = "afterfor"
              /\ UNCHANGED gp
    /\ UNCHANGED <<eigen, tool, surf, out, cfg, err, maximas, fr, stack, called, hist>>

\* gradient_path as line 338 calls it: beta_sphere_maxima is beta_sph_max of
\* lines 488-490.
RayGP ==
    /\ pc = "gp"
    /\ gp.calls < MaxCalls
    /\ LET b == fr.i_maxima
           n == Len(maximas)
           r == ray.rad_pts[ray.i_ray + 1]
           inBeta == cfg.beta.given /\ ray.f.ncd < cfg.beta.vals[b + 1]
           s == GPStep(gp, ray.f.conv, cfg.beta.given, inBeta)
       IN
         /\ called' = IF s.kind \in {"raise", "none"} THEN called
                       ELSE called \cup {"integrator"}
         /\ gp' = s.g
         /\ CASE s.kind = "loop" -> UNCHANGED <<pc, err, ray>>
              [] s.kind \in {"raise", "none"} ->
                   /\ pc' = Propagate(stack)
                   /\ err' = IF s.kind = "raise" THEN "ConvergenceError" ELSE "TypeError"
                   /\ UNCHANGED ray
              [] OTHER ->
                   /\ pc' = "capture"
                   /\ ray' = [ray EXCEPT !.y = IF s.kind = "return_conv"
                                               THEN EndDists(ray.f, r, b, n)
                                               ELSE StallDists(ray.f, b, n)]
                   /\ UNCHANGED err
    /\ UNCHANGED <<eigen, tool, surf, out, cfg, maximas, fr, stack, hist>>

\* The distances from all the maxima, the own one included: line 486 without
\* the deletion (C7).
OtherMaximasAll(dists, i_maxima) == dists

\* Line 486: other_maximas, here the distances of a point from them.
OtherMaximas(dists, i_maxima) == NpDelete(dists, i_maxima)

\* Line 491: the beta spheres of the other maxima.
OtherBetaSph(vals, i_maxima) == NpDelete(vals, i_maxima)

\* Line 347: np.any(dist_maxima < 1e-1) or np.any(dist_maxima < beta_sphere_others).
IsCandidate(dist_maxima, beta, i_maxima) ==
    \/ \E k \in 1..Len(dist_maxima) : dist_maxima[k] < CaptureRadius
    \/ /\ beta.given
       /\ \E k \in DOMAIN dist_maxima \cap DOMAIN OtherBetaSph(beta.vals, i_maxima) :
             dist_maxima[k] < OtherBetaSph(beta.vals, i_maxima)[k]

\* np.where(dist_maxima < 1e-1)[0]: the 0-based positions inside the capture radius.
WhereCaptured(dist_maxima) ==
    {k - 1 : k \in {j \in 1..Len(dist_maxima) : dist_maxima[j] < CaptureRadius}}

SetMin(S) == CHOOSE x \in S : \A y \in S : x <= y

\* The last of the positions inside the capture radius instead of the first
\* of line 355, np.where(dist_maxima < 1e-1)[0][-1] + 1 (C23).
BasinIdLast(dist_maxima) ==
    IF WhereCaptured(dist_maxima) = {} THEN None
    ELSE (CHOOSE x \in WhereCaptured(dist_maxima) :
             \A y \in WhereCaptured(dist_maxima) : y <= x) + 1

\* Line 355: np.where(dist_maxima < 1e-1)[0][0] + 1, None for IndexError.
BasinId(dist_maxima) ==
    IF WhereCaptured(dist_maxima) = {} THEN None
    ELSE SetMin(WhereCaptured(dist_maxima)) + 1

\* The captured sample itself instead of the midpoint of line 354 (C5).
MidpointUpper(r, prev) == r

\* Line 354: (ray[i_ray] + ray[i_ray - 1]) / 2.0, as a radius.
Midpoint(r, prev) == (r + prev) \div 2

\* Lines 344-365 and 372: what the end point of the gradient path decides.
Capture ==
    /\ pc = "capture"
    /\ LET i == ray.i_ray
           r == ray.rad_pts[i + 1]
           prev == PyIndex(ray.rad_pts, i - 1)
           dist_maxima == OtherMaximas(ray.y, fr.i_maxima)
           ss == ray.ss_ray \div StepShrink
           l_bnd == IF i # 0 THEN prev ELSE MinRad
       IN
         IF IsCandidate(dist_maxima, cfg.beta, fr.i_maxima)
         THEN IF Abs(r - prev) < cfg.bnd_err
              THEN IF BasinId(dist_maxima) = None
                   THEN /\ pc' = Propagate(stack)
                        /\ err' = "IndexError"
                        /\ ray' = [ray EXCEPT !.found = TRUE, !.bnd_pt = Midpoint(r, prev)]
                   ELSE /\ pc' = "afterfor"
                        /\ ray' = [ray EXCEPT !.found = TRUE,
                                              !.bnd_pt = Midpoint(r, prev),
                                              !.basin_id = BasinId(dist_maxima)]
                        /\ UNCHANGED err
              ELSE IF ss = 0
                   THEN /\ pc' = Propagate(stack)
                        /\ err' = "ZeroDivisionError"
                        /\ UNCHANGED ray
                   ELSE /\ pc' = "afterfor"
                        /\ ray' = [ray EXCEPT !.ss_ray = ss,
                                              !.rad_pts = NpArange(l_bnd, r + ss, ss)]
                        /\ UNCHANGED err
         ELSE /\ ray' = [ray EXCEPT !.to_inf = (i = Len(ray.rad_pts) - 1) \/ @,
                                    !.i_ray = IF i + 1 < Len(ray.rad_pts) THEN i + 1 ELSE i]
              /\ pc' = IF i + 1 < Len(ray.rad_pts) THEN "for" ELSE "afterfor"
              /\ UNCHANGED err
    /\ UNCHANGED <<eigen, tool, surf, out, cfg, maximas, fr, stack, gp, called, hist>>

\* The densities of the samples of the current ray (line 329).
RayDensity(rw) == [k \in 1..Len(rw.rad_pts) |-> Dens(rw.f, rw.rad_pts[k])]

\* The last position whatever the densities are, instead of line 375 (C20).
ArgMinIsoLast(dens, iso_val) == {Len(dens) - 1}

\* Line 375: the positions np.argsort(np.abs(ray_density - iso_val)) may put
\* first: those of the least value (the sort is not stable).
ArgMinIso(dens, iso_val) ==
    {k - 1 : k \in {j \in 1..Len(dens) :
                      \A m \in 1..Len(dens) :
                         Abs(dens[j] - iso_val) <= Abs(dens[m] - iso_val)}}

\* Lines 374-378 and the test of line 327: after the for loop.
AfterFor ==
    /\ pc = "afterfor"
    /\ IF ray.to_inf
       THEN /\ \E k \in ArgMinIso(RayDensity(ray), cfg.iso_val) :
                 ray' = [ray EXCEPT !.index_iso = k]
            /\ pc' = "iso"
       ELSE /\ pc' = IF ray.found THEN "record" ELSE "while"
            /\ UNCHANGED ray
    /\ UNCHANGED <<eigen, tool, surf, out, cfg, err, maximas, fr, stack, gp, called, hist>>

-----------------------------------------------------------------------------
(* solve_for_isosurface_pt and the rest of the loop over the directions. *)

\* The sample of the index itself as the lower bound, instead of the one
\* before it (C30).
IsoLowerSame(index_iso, rad_pts) == PyIndex(rad_pts, index_iso)

\* Line 282: the lower bound of the bracket (None: IndexError).
IsoLower(index_iso, rad_pts) ==
    IF index_iso >= 0 THEN PyIndex(rad_pts, index_iso - 1)
    ELSE IF PyIndex(rad_pts, index_iso) = None THEN None
    ELSE PyIndex(rad_pts, index_iso) \div 2

\* Line 283: the upper bound of the bracket (None: IndexError).
IsoUpper(index_iso, rad_pts) ==
    IF index_iso + 1 < Len(rad_pts) THEN PyIndex(rad_pts, index_iso + 1)
    ELSE IF PyIndex(rad_pts, index_iso) = None THEN None
    ELSE PyIndex(rad_pts, index_iso) * 2

\* Line 286 without its second test: only the upper bound is looked at (C11).
BracketFailsUpperOnly(dens_l_bnd, dens_u_bnd, iso_val) == iso_val < dens_u_bnd

\* Line 286: the bracket does not hold the isosurface value.
BracketFails(dens_l_bnd, dens_u_bnd, iso_val) ==
    iso_val < dens_u_bnd \/ dens_l_bnd < iso_val

\* The radius at which the density of the field crosses iso_val: the last
\* radius whose density is at least iso_val.
Crossing(f, iso_val) == (f.d0 - iso_val) \div f.sn

\* Line 293: root_scalar(..., method="toms748", bracket=(l_bnd, u_bnd), xtol=iso_err)
\* returns a radius of the bracket no farther than xtol from the crossing;
\* none (it raises, "RootError") when the bracket holds no crossing.
RootScalar(f, l_bnd, u_bnd, iso_val, xtol) ==
    {t \in (Crossing(f, iso_val) - xtol)..(Crossing(f, iso_val) + xtol) :
        l_bnd <= t /\ t <= u_bnd}

\* Lines 506-510 and 274-298: solve_for_isosurface_pt on the grid radial.
IsoSolve ==
    /\ pc = "iso"
    /\ LET l_bnd == IsoLower(ray.index_iso, ray.radial)
           u_bnd == IsoUpper(ray.index_iso, ray.radial)
       IN
         IF l_bnd = None \/ u_bnd = None
         THEN /\ pc' = Propagate(stack)
              /\ err' = "IndexError"
              /\ UNCHANGED <<ray, called>>
         ELSE IF BracketFails(Dens(ray.f, l_bnd), Dens(ray.f, u_bnd), cfg.iso_val)
         THEN /\ pc' = Propagate(stack)
              /\ err' = "BracketError"
              /\ ray' = [ray EXCEPT !.l_bnd = l_bnd, !.u_bnd = u_bnd]
              /\ called' = called \cup {"density"}
         ELSE IF RootScalar(ray.f, l_bnd, u_bnd, cfg.iso_val, cfg.iso_err) = {}
         THEN /\ pc' = Propagate(stack)
              /\ err' = "RootError"
              /\ ray' = [ray EXCEPT !.l_bnd = l_bnd, !.u_bnd = u_bnd]
              /\ called' = called \cup {"density", "root"}
         ELSE /\ \E t \in RootScalar(ray.f, l_bnd, u_bnd, cfg.iso_val, cfg.iso_err) :
                   ray' = [ray EXCEPT !.l_bnd = l_bnd, !.u_bnd = u_bnd, !.bnd_pt = t]
              /\ pc' = "record"
              /\ called' = called \cup {"density", "root"}
              /\ UNCHANGED err
    /\ UNCHANGED <<eigen, tool, surf, out, cfg, maximas, fr, stack, gp, hist>>

\* The maxima (0-based) within the capture radius of the end point: what the
\* ray was in truth captured by.
CapturedBy(dists, b) ==
    {m \in 0..(Len(dists) - 1) : m # b /\ dists[m + 1] < CaptureRadius}

\* The loop of line 493 left one direction early: the refinement of line 521
\* would start with the last base direction of the basin untraced (C16).
AfterDirectionEarly(i_ang, nang) == IF i_ang + 2 < nang THEN "ang" ELSE "refine"

\* Lines 493 and 521: after the direction i_ang the loop over the directions
\* goes on, or is over and the refinement of the basin is looked at.
AfterDirection(i_ang, nang) == IF i_ang + 1 < nang THEN "ang" ELSE "refine"

\* Lines 512-517: the radius and the class of the direction are recorded.
Record ==
    /\ pc = "record"
    /\ LET b == fr.i_maxima + 1
           i_ang == fr.i_ang
           f1 == [fr EXCEPT !.r_func[b][i_ang + 1] = ray.bnd_pt]
           f2 == IF ray.to_inf THEN [f1 EXCEPT !.oas[b] = Append(@, i_ang)]
                 ELSE IF ray.found
                 THEN [f1 EXCEPT !.ias[b] = Append(@, i_ang),
                                 !.basin_ias[b] = Append(@, ray.basin_id),
                                 !.truth[b] = Append(@, CapturedBy(ray.y, fr.i_maxima))]
                 ELSE f1
       IN fr' = [f2 EXCEPT !.i_ang = @ + 1]
    /\ pc' = AfterDirection(fr.i_ang, fr.nang)
    /\ UNCHANGED <<eigen, tool, surf, out, cfg, err, maximas, stack, ray, gp, called, hist>>

\* construct_points_between_ias_and_oas (lines 197-232): the numbers of points
\* it may return for ias and oas lists of these lengths, seven per vertex of the
\* hull of the IAS points; none when ConvexHull raises for want of points.
NewPointCounts(n_ias, n_oas) ==
    IF n_ias < HullMinPts \/ n_oas < HullMinPts THEN {}
    ELSE {PtsPerVertex * k : k \in HullMinPts..n_ias}

\* A recursive call that passes refine=True on: it would refine again (C29).
RefinementCallNested(i_maxima, cnt) == NewFrame("array", cnt, RBool(TRUE), FALSE)

\* Lines 530-533: the locals of the recursive call qtaim_surface(rgrids,
\* new_pts, maximas, ..., optimize_centers=False, refine=i_maxima) on cnt new
\* directions.
RefinementCall(i_maxima, cnt) == NewFrame("array", cnt, RInt(i_maxima), FALSE)

\* Lines 521-534: the refinement of the basin just traced, by a new invocation.
Refine ==
    /\ pc = "refine"
    /\ LET b == fr.i_maxima + 1
           counts == NewPointCounts(Len(fr.ias[b]), Len(fr.oas[b]))
       IN
         IF fr.refine.kind = "bool" /\ fr.refine.val = 1
         THEN IF counts = {}
              THEN /\ pc' = Propagate(stack)
                   /\ err' = "HullError"
                   /\ UNCHANGED <<fr, stack, hist>>
              ELSE /\ \E cnt \in counts :
                        fr' = RefinementCall(fr.i_maxima, cnt)
                   /\ stack' = Append(stack, fr)
                   /\ pc' = "validate"
                   /\ hist' = [hist EXCEPT !.recursive = @ + 1]
                   /\ UNCHANGED err
         ELSE /\ fr' = [fr EXCEPT !.i_maxima = @ + 1]
              /\ pc' = "basin"
              /\ UNCHANGED <<err, stack, hist>>
    /\ UNCHANGED <<eigen, tool, surf, out, cfg, maximas, ray, gp, called>>

\* The indices of the refinement invocation as they are, without the offset
\* of lines 537-538 (C2).
ShiftedNoOffset(seq, offset) == seq

\* [x + offset for x in seq] (lines 537-538).
Shifted(seq, offset) == [k \in 1..Len(seq) |-> seq[k] + offset]

\* A merge that puts the radii of the refinement before those of the base
\* directions (C15).
MergeInFront(parent, refined) ==
    LET b == parent.i_maxima + 1 IN
    [parent EXCEPT
        !.ias[b] = @ \o Shifted(refined.ias[b], parent.nang),
        !.oas[b] = @ \o Shifted(refined.oas[b], parent.nang),
        !.basin_ias[b] = @ \o refined.basin_ias[b],
        !.truth[b] = @ \o refined.truth[b],
        !.refined_ang = Append(@, [basin |-> parent.i_maxima, n |-> refined.nang]),
        !.r_func[b] = refined.r_func[b] \o @]

\* Lines 535-542: the caller's locals after the results of the refinement
\* invocation refined are merged into those of basin i_maxima.
Merge(parent, refined) ==
    LET b == parent.i_maxima + 1 IN
    [parent EXCEPT
        !.ias[b] = @ \o Shifted(refined.ias[b], parent.nang),
        !.oas[b] = @ \o Shifted(refined.oas[b], parent.nang),
        !.basin_ias[b] = @ \o refined.basin_ias[b],
        !.truth[b] = @ \o refined.truth[b],
        !.refined_ang = Append(@, [basin |-> parent.i_maxima, n |-> refined.nang]),
        !.r_func[b] = @ \o refined.r_func[b]]

\* Lines 58-67 and 546: SurfaceQTAIM(r_func, [rgrids], angular, maximas, oas,
\* ias, basin_ias, refined_ang) of the locals f. r_func, oas, ias and
\* basins_ias are Python lists with one entry per maximum, rad_grids is a list
\* of one grid, refined_ang is None or the list of the arrays new_pts (here
\* their lengths and the basins they were made for) in the order they were
\* appended.
SurfaceQTAIM(f, rgrid, maxs) ==
    [made |-> TRUE, r_func |-> f.r_func, rad_grids |-> <<rgrid>>,
     angular_degs |-> [kind |-> f.angular, n |-> f.nang], maximas |-> maxs,
     oas |-> f.oas, ias |-> f.ias, basins_ias |-> f.basin_ias,
     refined_none |-> f.ref_none, refined_ang |-> f.refined_ang]

\* Lines 545-546: the invocation returns its SurfaceQTAIM, to the caller of
\* qtaim_surface or to line 531.
Return ==
    /\ pc = "return"
    /\ IF stack = << >>
       THEN /\ pc' = "done"
            /\ surf' = SurfaceQTAIM(fr, cfg.rgrid, maximas)
            /\ UNCHANGED <<fr, stack>>
       ELSE /\ fr' = [Merge(stack[Len(stack)], fr) EXCEPT !.i_maxima = @ + 1]
            /\ stack' = SubSeq(stack, 1, Len(stack) - 1)
            /\ pc' = "basin"
            /\ UNCHANGED surf
    /\ UNCHANGED <<eigen, tool, out, cfg, err, maximas, ray, gp, called, hist>>

-----------------------------------------------------------------------------
(* The methods of the SurfaceQTAIM the call returned. *)

\* A list of directions: n of them, the Lebedev grid of the degree angular
\* ("lebedev") or the array given as angular ("given").
Directions(tag, n) == [tag |-> tag, n |-> n]

\* The directions of line 471 that qtaim_surface traced for the descriptor deg.
AngularPts(deg) ==
    Directions(IF deg.kind = "int" THEN "lebedev" ELSE "given", deg.n)

\* AngularGrid(degree=deg).points of the grid library (lines 112, 116): for an
\* integer degree the Lebedev grid again; for an array of directions the
\* library is handed an array where it takes a degree, and it raises or builds
\* a Lebedev grid of some degree, never the array.
AngularGrid(deg) ==
    IF deg.kind = "int" THEN {[ok |-> TRUE, pts |-> Directions("lebedev", deg.n)]}
    ELSE {[ok |-> FALSE, pts |-> Directions("none", 0)],
          [ok |-> TRUE, pts |-> Directions("lebedev", deg.n)]}

\* What a method raised.
Raised(e) == [kind |-> "error", err |-> e]

\* generate_angular_pts_of_basin(i_basin), lines 114-119, on the object s: the
\* base points and, stacked under them, the entry i_basin of refined_ang.
GenerateAngularPts(s, i_basin) ==
    {IF ~g.ok THEN Raised("GridError")
     ELSE IF s.refined_none THEN [kind |-> "points", base |-> g.pts, extra |-> << >>]
     ELSE IF ~(i_basin < Len(s.refined_ang)) THEN Raised("IndexError")
     ELSE [kind |-> "points", base |-> g.pts,
           extra |-> <<s.refined_ang[i_basin + 1]>>] :
        g \in AngularGrid(s.angular_degs)}

\* self.r_func[i_basin, i_sph] of line 129: r_func is the Python list of line
\* 475, and a list takes no tuple as index.
RFuncAt(r_func, i_basin, i_sph) == [ok |-> FALSE, val |-> 0]

\* Lines 131-135: the weights of the samples (shell i_rad, direction i_sph),
\* 1 standing for the weight of the unrestricted grid.
Weights(rgrid, limits) ==
    [i_rad \in 1..Len(rgrid) |->
        [i_sph \in 1..Len(limits) |-> IF rgrid[i_rad] > limits[i_sph] THEN 0 ELSE 1]]

\* get_atom_grid_over_basin(i_basin), lines 121-137, on the object s.
GetAtomGrid(s, i_basin) ==
    IF ~(i_basin < Len(s.rad_grids)) THEN {Raised("IndexError")}
    ELSE {IF ~g.ok THEN Raised("GridError")
          ELSE IF \E i_sph \in 0..(g.pts.n - 1) : ~RFuncAt(s.r_func, i_basin, i_sph).ok
          THEN Raised("TypeError")
          ELSE [kind |-> "grid",
                weights |-> Weights(s.rad_grids[i_basin + 1],
                                    [k \in 1..g.pts.n |->
                                        RFuncAt(s.r_func, i_basin, k - 1).val])] :
            g \in AngularGrid(s.angular_degs)}

\* A caller invokes generate_angular_pts_of_basin on the returned object.
CallGenerateAngularPts ==
    /\ pc = "done"
    /\ \E b \in 0..(Len(surf.maximas) - 1) :
          \E o \in GenerateAngularPts(surf, b) :
             out' = [op |-> "generate_angular_pts_of_basin", basin |-> b, res |-> o]
    /\ UNCHANGED <<eigen, tool, surf, cfg, pc, err, maximas, fr, stack, ray, gp, called, hist>>

\* A caller invokes get_atom_grid_over_basin on the returned object.
CallGetAtomGrid ==
    /\ pc = "done"
    /\ \E b \in 0..(Len(surf.maximas) - 1) :
          \E o \in GetAtomGrid(surf, b) :
             out' = [op |-> "get_atom_grid_over_basin", basin |-> b, res |-> o]
    /\ UNCHANGED <<eigen, tool, surf, cfg, pc, err, maximas, fr, stack, ray, gp, called, hist>>

-----------------------------------------------------------------------------
(* The worlds the model is run in: the arguments of the top-level call and   *)
(* the fields its rays may meet. Each family varies a few arguments around   *)
(* one valid baseline.                                                       *)

\* A valid call on n maxima: one direction, no refinement, no beta spheres,
\* dens_cutoff 0.5, iso_val 1.0, bnd_err 2.5, exact roots, simple fields.
Base(n) ==
    [n |-> n, centers |-> Centers(n), angular |-> "int", nang |-> 1,
     refine |-> RBool(FALSE),
     optimize |-> FALSE, dens_cutoff |-> 10000, iso_val |-> 20000,
     bnd_err |-> 50000, iso_err |-> 0, beta |-> NoBeta, rgrid |-> GridUniform,
     mode |-> "simple", split |-> 0, rfail |-> None,
     rhos |-> {0}, capts |-> "next", convs |-> {1}, ncds |-> {Far},
     denss |-> {<<60000, 1>>}, loc_conv |-> {1}, loc_shift |-> {0}]

AllBeta(n, v) == Beta([k \in 1..n |-> v])

\* Valid and invalid arguments, with and without the maxima locator.
ValidationWorlds ==
    {[Base(n) EXCEPT !.refine = rf, !.dens_cutoff = dc, !.beta = bt, !.optimize = op] :
        n \in 1..2, rf \in {ROther, RBool(FALSE), RInt(0)},
        dc \in {10000, 20000, 30000},
        bt \in {NoBeta, AllBeta(2, BetaSmall), AllBeta(1, BetaSmall)},
        op \in BOOLEAN}

\* The maxima locator: seeds that converge at the first or second attempt or
\* never, onto themselves or 3e-9 further along the line (so that neighbours
\* end 7e-9, 1e-8 or 1.3e-8 apart).
LocatorWorlds ==
    {[Base(n) EXCEPT !.optimize = TRUE, !.loc_conv = {0, 1, 2}, !.loc_shift = {0, 3},
                     !.mode = "split", !.split = sp] :
        n \in 1..MaxMaxima, sp \in {0, 1}}

\* Several maxima and several directions, every ray free to escape or to be
\* captured by any other maximum.
SurfaceWorlds ==
    {[Base(n) EXCEPT !.nang = 1] : n \in 1..MaxMaxima}
    \cup {[Base(2) EXCEPT !.nang = na] : na \in 1..MaxAng}

\* One ray of basin k whose gradient paths switch to the next maximum at any
\* of several radii, on both grids, for several tolerances and densities,
\* without beta spheres and with ones that cut the first grid radius.
SwitchWorlds ==
    {[Base(2) EXCEPT !.refine = RInt(k), !.mode = "rich", !.bnd_err = be,
                     !.rgrid = g, !.beta = bt,
                     !.rhos = {0, 1, 20000, 30000, 40000, 50000, 63000, 64000},
                     !.denss = {<<60000, 1>>, <<74100, 1>>, <<200000, 1>>}] :
        k \in 0..1, be \in {100, 1000, 50000}, g \in {GridUniform, GridUneven},
        bt \in {NoBeta, AllBeta(2, BetaR)}}

\* One ray of basin k whose gradient paths end near, in beta-sphere range of,
\* or far from each of the other maxima, with and without beta spheres.
CaptureWorlds ==
    UNION {{[Base(n) EXCEPT !.refine = RInt(k), !.mode = "rich", !.capts = "all",
                            !.rhos = {0, 30000}, !.beta = bt] :
              k \in 0..(n - 1), bt \in {NoBeta, AllBeta(n, BetaSmall)}} :
           n \in 1..MaxMaxima}

\* One ray whose gradient paths converge at the first, second or third
\* attempt or never, their stalled end points inside or outside the beta sphere.
IntegratorWorlds ==
    {[Base(2) EXCEPT !.refine = RInt(0), !.mode = "rich", !.convs = {0, 1, 2, 3},
                     !.ncds = {Near, Far}, !.rhos = {0, 30000}, !.beta = bt] :
        bt \in {NoBeta, AllBeta(2, BetaSmall)}}

\* One escaping ray: densities, isosurface values, root tolerances, grids and
\* beta spheres that cut none, one or all of the grid's radii.
EscapeWorlds ==
    UNION {{[Base(n) EXCEPT !.mode = "rich", !.iso_val = iv, !.iso_err = ie,
                            !.rgrid = g, !.beta = bt,
                            !.denss = {<<60000, 1>>, <<120000, 2>>, <<100000, 1>>,
                                       <<200000, 1>>, <<30000, 1>>}] :
              iv \in {20000, 30000}, ie \in {0, 2},
              g \in {GridUniform, GridUneven},
              bt \in {NoBeta, AllBeta(n, BetaSmall), AllBeta(n, BetaR),
                      AllBeta(n, BetaHuge)}} :
           n \in 1..2}

\* One escaping ray on a grid of five radii, for densities that fall below
\* dens_cutoff at different samples and several isosurface values.
BracketWorlds ==
    {[Base(1) EXCEPT !.mode = "rich", !.rgrid = GridFine, !.iso_val = iv,
                     !.denss = {<<60000, 1>>, <<45000, 1>>, <<52000, 1>>,
                                <<100000, 2>>, <<38000, 1>>}] :
        iv \in {20000, 25000, 30000}}

\* refine=True on twice HullMinPts directions, of which the first split are
\* captured; rfail is a refinement direction whose gradient path never converges.
\* And once on one direction more, and once with the maxima locator.
RefineWorlds ==
    {[Base(n) EXCEPT !.refine = RBool(TRUE), !.mode = "split", !.nang = 2 * HullMinPts,
                     !.split = sp, !.rfail = rf] :
        n \in 1..2, sp \in {0, HullMinPts - 1, HullMinPts, HullMinPts + 1},
        rf \in {None, 5}}
    \cup {[Base(2) EXCEPT !.refine = RBool(TRUE), !.mode = "split",
                          !.nang = 2 * HullMinPts + 1, !.split = HullMinPts]}
    \cup {[Base(2) EXCEPT !.refine = RBool(TRUE), !.mode = "split",
                          !.nang = 2 * HullMinPts, !.split = HullMinPts,
                          !.optimize = TRUE]}

\* The directions given as an array instead of a degree, and refine an
\* integer: basin 0 only (refine=0) or basin 1 only (refine=1).
DescriptorWorlds ==
    {[Base(n) EXCEPT !.angular = ak, !.nang = na, !.refine = rf] :
        n \in 1..2, ak \in {"int", "array"}, na \in 1..MaxAng,
        rf \in {RBool(FALSE), RInt(0), RInt(1)}}

Worlds ==
    DescriptorWorlds \cup ValidationWorlds \cup LocatorWorlds \cup SurfaceWorlds \cup SwitchWorlds
    \cup CaptureWorlds \cup IntegratorWorlds \cup EscapeWorlds \cup RefineWorlds
    \cup BracketWorlds

-----------------------------------------------------------------------------
(* The specification. *)

Init ==
    /\ cfg \in Worlds
    /\ pc = "validate"
    /\ err = "none"
    /\ maximas = cfg.centers
    /\ fr = NewFrame(cfg.angular, cfg.nang, cfg.refine, cfg.optimize)
    /\ stack = << >>
    /\ ray = NoRay
    /\ gp = NoGp
    /\ called = {}
    /\ hist = [locator |-> 0, recursive |-> 0]
    /\ surf = NoSurf
    /\ out = NoOut
    /\ tool = NoTool
    /\ eigen = NoEigen

Next ==
    \/ Validate
    \/ OptStart
    \/ OptGP
    \/ CheckDuplicates
    \/ Setup
    \/ Basin
    \/ RayStart
    \/ WhileHead
    \/ ForSample
    \/ RayGP
    \/ Capture
    \/ AfterFor
    \/ IsoSolve
    \/ Record
    \/ Refine
    \/ Return
    \/ CallGenerateAngularPts
    \/ CallGetAtomGrid

Spec == Init /\ [][Next]_vars

-----------------------------------------------------------------------------
\* src/chemtools/tools/glob.py: QuadraticGlobalTool.  The energies ip and ea
\* are integers in half units, and the arguments are whole units (even), so
\* that the product with 0.5 of line 51 is exact, as it is in binary floating
\* point.

\* The largest ip and ea, in whole units.
MaxEnergy == 3

Energies == {2 * k : k \in (0 - MaxEnergy)..MaxEnergy}

Properties ==
    {"ip", "ionization_potential", "electron_affinity", "ea", "mu",
     "chemical_potential", "eta", "chemical_hardness", "electronegativity"}

\* Lines 21-22: the constructor stores its arguments.
QuadraticGlobalTool(ip0, ea0) ==
    [made |-> TRUE, args |-> [ip |-> ip0, ea |-> ea0],
     ip_ |-> ip0, ea_ |-> ea0, read |-> "none", value |-> 0]

\* Lines 25-42.
ip(self) == self.ip_
ionization_potential(self) == self.ip_
electron_affinity(self) == self.ea_
ea(self) == self.ea_

\* A chemical potential without the sign of line 51 (C18).
muUnsigned(self) == (self.ip_ + self.ea_) \div 2

\* Line 51: -0.5 * (self._ip + self._ea).
mu(self) == 0 - ((self.ip_ + self.ea_) \div 2)

\* Line 60.
chemical_potential(self) == mu(self)

\* Line 69.
eta(self) == self.ip_ - self.ea_

\* Line 78.
chemical_hardness(self) == eta(self)

\* Lines 89-90.
electronegativity(self) == (0 - 1) * mu(self)

\* The value of the property name of the object self.
GetProperty(self, name) ==
    CASE name = "ip" -> ip(self)
      [] name = "ionization_potential" -> ionization_potential(self)
      [] name = "electron_affinity" -> electron_affinity(self)
      [] name = "ea" -> ea(self)
      [] name = "mu" -> mu(self)
      [] name = "chemical_potential" -> chemical_potential(self)
      [] name = "eta" -> eta(self)
      [] name = "chemical_hardness" -> chemical_hardness(self)
      [] name = "electronegativity" -> electronegativity(self)

\* QuadraticGlobalTool(ip, ea) is called.
NewTool ==
    /\ \E ip0 \in Energies, ea0 \in Energies : tool' = QuadraticGlobalTool(ip0, ea0)
    /\ UNCHANGED <<eigen, cfg, pc, err, maximas, fr, stack, ray, gp, called, hist, surf, out>>

\* A property of the object is read.
ReadProperty ==
    /\ tool.made
    /\ \E name \in Properties :
          tool' = [tool EXCEPT !.read = name, !.value = GetProperty(tool, name)]
    /\ UNCHANGED <<eigen, cfg, pc, err, maximas, fr, stack, ray, gp, called, hist, surf, out>>

\* No call of qtaim_surface is under way in the runs of the tool.
GlobInit ==
    /\ tool = NoTool
    /\ cfg = Base(1)
    /\ pc = "validate"
    /\ err = "none"
    /\ maximas = cfg.centers
    /\ fr = NewFrame(cfg.angular, cfg.nang, cfg.refine, cfg.optimize)
    /\ stack = << >>
    /\ ray = NoRay
    /\ gp = NoGp
    /\ called = {}
    /\ hist = [locator |-> 0, recursive |-> 0]
    /\ surf = NoSurf
    /\ out = NoOut
    /\ eigen = NoEigen

GlobNext ==
    \/ NewTool
    \/ ReadProperty

GlobSpec == GlobInit /\ [][GlobNext]_vars

-----------------------------------------------------------------------------
\* src/chemtools/topology/eigenvalues.py: EigenDescriptor.  The eigenvalues
\* and zero_eps are integers in one unit.

\* The largest size of an eigenvalue.
MaxEigen == 2

\* The rows of an array of eigenvalues: the three eigenvalues of one point.
EigenRows == [1..3 -> (0 - MaxEigen)..MaxEigen]

\* The arguments eigenvals that are two-dimensional numpy arrays: here the
\* eigenvalues of two points.
EigenArrays == [1..2 -> EigenRows]

\* Lines 38-53: the constructor keeps a two-dimensional numpy array and
\* zero_eps, and raises TypeError for anything else (kind is "ndarray2",
\* "ndarray1" for an array of another dimension, or "list").
EigenDescriptor(kind, eigenvals, zero_eps) ==
    IF kind # "ndarray2" THEN [made |-> FALSE, err |-> "TypeError"]
    ELSE [made |-> TRUE, err |-> "none", eigenvals_ |-> eigenvals,
          zero_eps_ |-> zero_eps, read |-> "none", index |-> 0, value |-> 0]

\* The number of eigenvalues above zero_eps only, without the np.abs of line
\* 165 (C26).
rankPositive(self, index) ==
    Cardinality({k \in DOMAIN self.eigenvals_[index + 1] :
                    self.eigenvals_[index + 1][k] > self.zero_eps_})

\* Line 165: np.sum(np.abs(self._eigenvals[index]) > self._zero_eps, axis=0).
rank(self, index) ==
    Cardinality({k \in DOMAIN self.eigenvals_[index + 1] :
                    Abs(self.eigenvals_[index + 1][k]) > self.zero_eps_})

\* EigenDescriptor(eigenvals, zero_eps) is called.
NewEigen ==
    /\ eigen = NoEigen
    /\ \E kind \in {"ndarray2", "ndarray1", "list"}, a \in EigenArrays, eps \in 0..1 :
          eigen' = EigenDescriptor(kind, a, eps)
    /\ UNCHANGED <<tool, cfg, pc, err, maximas, fr, stack, ray, gp, called, hist, surf, out>>

\* rank(index) is called on the object.
CallRank ==
    /\ eigen.made
    /\ \E index \in 0..(Len(eigen.eigenvals_) - 1) :
          eigen' = [eigen EXCEPT !.read = "rank", !.index = index,
                                 !.value = rank(eigen, index)]
    /\ UNCHANGED <<tool, cfg, pc, err, maximas, fr, stack, ray, gp, called, hist, surf, out>>

\* No call of qtaim_surface is under way in the runs of the descriptor.
EigenInit ==
    /\ eigen = NoEigen
    /\ tool = NoTool
    /\ cfg = Base(1)
    /\ pc = "validate"
    /\ err = "none"
    /\ maximas = cfg.centers
    /\ fr = NewFrame(cfg.angular, cfg.nang, cfg.refine, cfg.optimize)
    /\ stack = << >>
    /\ ray = NoRay
    /\ gp = NoGp
    /\ called = {}
    /\ hist = [locator |-> 0, recursive |-> 0]
    /\ surf = NoSurf
    /\ out = NoOut

EigenNext ==
    \/ NewEigen
    \/ CallRank

EigenSpec == EigenInit /\ [][EigenNext]_vars

-----------------------------------------------------------------------------
(* The properties of the program. *)

\* The arguments of the top-level call pass the three tests of lines 455-463.
ValidArgs ==
    /\ cfg.refine.kind \in {"bool", "int"}
    /\ cfg.dens_cutoff <= cfg.iso_val
    /\ (cfg.beta.given => Len(cfg.beta.vals) = Len(cfg.centers))

\* C1: a call with an invalid configuration (dens_cutoff > iso_val, a
\* beta_sphere list of another length than the centers, a refine that is
\* neither bool nor int) ends in the error of the validation, and up to then
\* neither the maxima locator, nor the density function, nor the integrator,
\* nor the root finder has been invoked and no ray has been started.
C1_RejectedBeforeAnyCall ==
    ~ValidArgs =>
        /\ called = {}
        /\ ray = NoRay
        /\ pc \in {"validate", "error"}
        /\ (pc = "error" => err \in {"TypeError", "CutoffError", "BetaLenError"})

\* A call that asked for the maxima locator was rejected for its cutoff.
C1_Witness ==
    /\ ~ValidArgs
    /\ cfg.optimize
    /\ pc = "error"
    /\ err = "CutoffError"
    /\ called = {}

\* The set of the entries of a list, and whether none repeats.
Indices(seq) == {seq[k] : k \in 1..Len(seq)}
NoRepeats(seq) == \A i, j \in 1..Len(seq) : seq[i] = seq[j] => i = j

\* C2: when an invocation of qtaim_surface returns, to its caller or to the
\* refinement of line 531, then for every basin it traced the OAS list and the
\* IAS list hold no index twice, share none, and together hold exactly the
\* indices 0 .. n-1, n the length of the basin's radial function.
C2_ListsPartition ==
    pc \in {"return", "done"} =>
        \A b \in 1..Len(maximas) :
            InMaximaToDo(fr.refine, b - 1, Len(maximas)) =>
                /\ NoRepeats(fr.oas[b] \o fr.ias[b])
                /\ Indices(fr.oas[b]) \cup Indices(fr.ias[b])
                      = 0..(Len(fr.r_func[b]) - 1)

\* The top-level call returned a basin refined by line 531, with directions
\* of the refinement in both lists.
C2_Witness ==
    /\ pc = "done"
    /\ cfg.refine = RBool(TRUE)
    /\ \E b \in 1..Len(maximas) :
          /\ Len(fr.r_func[b]) > cfg.nang
          /\ \E k \in 1..Len(fr.ias[b]) : fr.ias[b][k] >= cfg.nang
          /\ \E k \in 1..Len(fr.oas[b]) : fr.oas[b][k] >= cfg.nang

\* C3: there is a numbering of the maxima sequence, from 0 or from 1, under
\* which no neighbour id recorded in basins_ias[b] is the id of basin b.
\* The program breaks it: see C3_NeverOwnId's trace.
C3_NeverOwnId ==
    \E c \in {0, 1} :
        \A b \in DOMAIN fr.basin_ias :
            \A k \in DOMAIN fr.basin_ias[b] :
                fr.basin_ias[b][k] # (b - 1) + c

\* C4: there is a numbering of the maxima sequence, from 0 or from 1, under
\* which every recorded neighbour id of a ray that ended within the capture
\* radius of exactly one other maximum m is the id of m.
C4_OneNumbering ==
    \E c \in {0, 1} :
        \A b \in DOMAIN fr.truth :
            \A k \in DOMAIN fr.truth[b] :
                \A m \in fr.truth[b][k] :
                    fr.truth[b][k] = {m} => fr.basin_ias[b][k] = m + c

\* Every gradient path of the field returns the end point of a converged
\* integration: at the first attempt, or without beta spheres at a later one.
PathsConverge(f) ==
    IF cfg.beta.given THEN f.conv = 1 ELSE f.conv \in 1..MaxTries

\* The ray of field f on the grid radial from basin b switches at f.rho: the
\* gradient paths of the samples below f.rho end at the own maximum, those of the
\* samples at or above it within the capture radius of another one; the first
\* grid radius is below f.rho, the last one at or above it, and the density is
\* above dens_cutoff on the grid.
SwitchRay(f, radial, b) ==
    /\ Len(radial) >= 1
    /\ radial[1] < f.rho
    /\ f.rho <= radial[Len(radial)]
    /\ \A k \in 1..Len(radial) : Dens(f, radial[k]) > cfg.dens_cutoff
    /\ PathsConverge(f)
    /\ CapturedBy(f.capt, b) # {}

\* The density is above dens_cutoff also one refined step (a tenth of the mean
\* grid spacing) beyond the last grid radius, as far as the samples of a
\* refined sub-grid reach; the density of a field decreases with the radius.
AboveCutoffOnSubGrids(f, radial) ==
    Dens(f, radial[Len(radial)] + MeanDiff(radial) \div StepShrink) > cfg.dens_cutoff

\* The program is at the ray in the variable ray, or has just recorded it.
AtRay ==
    \/ pc \in {"while", "for", "gp", "capture", "afterfor", "iso", "record"}
    \/ pc = "error" /\ err \in {"ConvergenceError", "IndexError", "BracketError",
                                "ZeroDivisionError"}
    \/ pc \in {"ang", "refine"} /\ fr.i_ang >= 1

\* The radius t is the midpoint of two consecutive samples of the ray that are
\* less than bnd_err apart and bracket the switch radius.
MidpointOfBracket(rw, t) ==
    \E k \in 1..(Len(rw.rad_pts) - 1) :
        /\ rw.rad_pts[k] < rw.f.rho
        /\ rw.f.rho <= rw.rad_pts[k + 1]
        /\ rw.rad_pts[k + 1] - rw.rad_pts[k] < cfg.bnd_err
        /\ 2 * t = rw.rad_pts[k] + rw.rad_pts[k + 1]
        /\ Abs(t - rw.f.rho) < cfg.bnd_err

\* The ray in the variable ray resolves as IAS with such a midpoint: it meets
\* no error, is never taken to escape, and once it is resolved the radius that
\* is recorded, with the direction in the IAS list, is such a midpoint.
ResolvesAsIAS ==
    /\ pc # "error"
    /\ ~ray.to_inf
    /\ (pc = "record" => ray.found /\ MidpointOfBracket(ray, ray.bnd_pt))
    /\ (pc \in {"ang", "refine"} =>
          /\ (fr.i_ang - 1) \in Indices(fr.ias[fr.i_maxima + 1])
          /\ MidpointOfBracket(ray, fr.r_func[fr.i_maxima + 1][fr.i_ang]))

C6_OasWithinIsoErr ==
    /\ pc \in {"ang", "refine"}
    /\ fr.i_ang >= 1
    /\ ray.to_inf
    /\ (fr.i_ang - 1) \in Indices(fr.oas[fr.i_maxima + 1])
    => Abs(Dens(ray.f, fr.r_func[fr.i_maxima + 1][fr.i_ang]) - cfg.iso_val)
          <= cfg.iso_err

\* C7: with a single maximum no end point of a gradient path is taken for a
\* watershed candidate (no ray is found captured, none is refined, none gets a
\* neighbour id), the IAS list and the neighbour list stay empty, and the
\* call returns every direction in the OAS list (unless an integer refine
\* other than 0 keeps the only basin out of maxima_to_do, line 480: then no
\* direction is traced at all).
C7_SingleMaximumAllOAS ==
    Len(cfg.centers) = 1 =>
        /\ ~ray.found
        /\ ray.passes <= 1
        /\ ray.basin_id = None
        /\ \A b \in DOMAIN fr.ias : fr.ias[b] = << >> /\ fr.basin_ias[b] = << >>
        /\ (pc = "done" /\ InMaximaToDo(cfg.refine, 0, 1) =>
               fr.oas[1] = [k \in 1..Len(fr.r_func[1]) |-> k - 1])

\* A call on a single maximum returned after a gradient path of its ray had
\* ended within the capture radius of that maximum.
C7_Witness ==
    /\ Len(cfg.centers) = 1
    /\ pc = "done"
    /\ fr.oas[1] # << >>
    /\ ray.y = <<Near>>

\* C8: one call of gradient_path makes at most max_tries integration
\* attempts (calls of solve_ivp), with or without a beta sphere.  The program
\* breaks it: with a beta sphere set, an attempt that neither converges nor
\* ends inside the sphere is repeated without being counted.
C8_AttemptBudget == gp.calls <= MaxTries

\* C9: once an error has occurred, at whatever depth of the refinement
\* recursion, the call has ended in it: the program is at its error exit, no
\* step of any invocation follows, and so no SurfaceQTAIM is returned.
C9_ErrorEndsCall ==
    err # "none" => pc = "error" /\ ~ENABLED Next

\* The gradient path of a ray of the refinement invocation failed to converge
\* while the caller held IAS and OAS results of the basin.
C9_Witness ==
    /\ pc = "error"
    /\ err = "ConvergenceError"
    /\ stack # << >>
    /\ stack[1].ias[stack[1].i_maxima + 1] # << >>
    /\ stack[1].oas[stack[1].i_maxima + 1] # << >>

\* Two different maxima of m are closer than 1e-8.
ClosePair(m) ==
    \E i, j \in 1..Len(m) : i # j /\ Abs(m[i] - m[j]) < DupTol

\* C10: _optimize_centers raises its error exactly when two different refined
\* maxima are closer than 1e-8: when it has raised there is such a pair, and
\* when the call has gone on past it there is none among the maxima it
\* returned; and when it has raised only the locator's gradient paths have
\* been computed, no ray has been started and no radius recorded.
C10_DuplicateIffClosePair ==
    /\ (err = "DuplicateMaxima" =>
          /\ pc = "error"
          /\ ClosePair(gp.acc)
          /\ called \subseteq {"locator", "integrator"}
          /\ ray = NoRay
          /\ fr.r_func = << >>)
    /\ (cfg.optimize /\ pc \notin {"validate", "optimize", "opt_gp", "dups", "error"} =>
          /\ Len(maximas) = Len(cfg.centers)
          /\ ~ClosePair(maximas))

\* The locator raised on three refined maxima of which two are closer than
\* 1e-8 and two are exactly 1e-8 apart.
C10_Witness ==
    /\ pc = "error"
    /\ err = "DuplicateMaxima"
    /\ Len(gp.acc) = 3
    /\ \E i, j \in 1..3 : Abs(gp.acc[i] - gp.acc[j]) = DupTol
    /\ \E i, j \in 1..3 : i # j /\ Abs(gp.acc[i] - gp.acc[j]) < DupTol

\* solve_for_isosurface_pt has computed the bracket of the ray in the
\* variable ray (no IndexError at lines 282-283).
SolverRan == ray.to_inf /\ ray.l_bnd # None /\ ray.u_bnd # None

\* C11: once solve_for_isosurface_pt has its bracket, the call has ended in the
\* bracket error, with no radius from the root finder, if the density at the
\* lower bound is below iso_val or the density at the upper bound above it;
\* otherwise the bracket error has not been raised and the root finder has
\* given a radius.
C11_BracketErrorIffNotBracketed ==
    SolverRan =>
        IF Dens(ray.f, ray.l_bnd) < cfg.iso_val \/ Dens(ray.f, ray.u_bnd) > cfg.iso_val
        THEN pc = "error" /\ err = "BracketError" /\ ray.bnd_pt = None
        ELSE err # "BracketError" /\ ray.bnd_pt # None

\* The bracket error was raised for a bracket whose upper bound alone is at
\* fault: the density at the lower bound is at least iso_val.
C11_Witness ==
    /\ SolverRan
    /\ err = "BracketError"
    /\ Dens(ray.f, ray.l_bnd) >= cfg.iso_val
    /\ Dens(ray.f, ray.u_bnd) > cfg.iso_val

\* C12: the bracket of solve_for_isosurface_pt around the index i is
\* (rad[i-1], rad[i+1]) for an interior i, has the lower bound rad[0]/2 for
\* i = 0 and the upper bound 2*rad[last] for the last i.  The program breaks
\* it: for i = 0 its lower bound is rad[-1], the last radius.
C12_BracketAroundIndex ==
    SolverRan =>
        LET i == ray.index_iso
            n == Len(ray.radial)
        IN /\ ray.l_bnd = IF i = 0 THEN ray.radial[1] \div 2 ELSE ray.radial[i]
           /\ ray.u_bnd = IF i = n - 1 THEN 2 * ray.radial[n] ELSE ray.radial[i + 2]

\* The radii of the directions of basin b (1-based) that are in its lists.
RecordedRadii(f, b) ==
    {f.r_func[b][k + 1] : k \in Indices(f.oas[b]) \cup Indices(f.ias[b])}

\* C13: with beta spheres given, no sample of a ray of basin b that the
\* tracer looks at lies inside b's beta sphere, and every radius recorded for
\* b is greater than beta_sphere[b].  The program breaks it: a ray captured
\* at its first sample is refined from the radius 1e-3 on.
C13_OutsideBetaSphere ==
    cfg.beta.given /\ Len(cfg.beta.vals) = Len(maximas) =>
        /\ (pc \in {"for", "gp", "capture"} =>
              ray.rad_pts[ray.i_ray + 1] > cfg.beta.vals[fr.i_maxima + 1])
        /\ \A b \in DOMAIN fr.r_func :
              \A r \in RecordedRadii(fr, b) : r > cfg.beta.vals[b]

\* The arrays of refinement directions made for basin b (0-based).
RefinementOf(s, b) == SelectSeq(s.refined_ang, LAMBDA e : e.basin = b)

\* How many directions the arrays of a list hold together.
RECURSIVE Total(_)
Total(arrays) == IF arrays = << >> THEN 0 ELSE Head(arrays).n + Total(Tail(arrays))

\* C14: generate_angular_pts_of_basin(b) on the returned object gives the
\* base directions the call traced, followed by the refinement directions of
\* basin b, and b's radial function has one entry for each of them.  The
\* program breaks it: an array of directions is kept as a degree, and a list
\* refined_ang that is empty is indexed.
C14_BaseThenRefinementDirections ==
    out.op = "generate_angular_pts_of_basin" =>
        /\ out.res.kind = "points"
        /\ out.res.base = AngularPts(surf.angular_degs)
        /\ out.res.extra = RefinementOf(surf, out.basin)
        /\ Len(surf.r_func[out.basin + 1]) = out.res.base.n + Total(out.res.extra)

\* C17: get_atom_grid_over_basin(b) on the returned object gives a grid in
\* which the weight of shell i_rad and direction i_sph is zero exactly when the
\* radius of the shell is greater than r_func[b][i_sph], and is otherwise the
\* weight of the unrestricted grid.  The program breaks it: the method raises.
C17_WeightsZeroBeyondBoundary ==
    out.op = "get_atom_grid_over_basin" =>
        /\ out.res.kind = "grid"
        /\ out.res.weights = Weights(cfg.rgrid, surf.r_func[out.basin + 1])

\* Is the sequence short the beginning of the sequence long?
IsPrefix(short, long) ==
    Len(short) <= Len(long) /\ SubSeq(long, 1, Len(short)) = short

\* C15: the step in which the results of the refinement of basin b are merged
\* (lines 535-542) only appends to b's entries: the radial function, the IAS
\* and OAS lists and the neighbour ids that the caller held for b are the
\* beginnings of the merged ones, the radial function of the caller had one
\* entry per base direction, every index that is added is at least the number
\* N of base directions, and the entries of every other basin are unchanged.
C15_MergeOnlyAppends ==
    [][pc = "return" /\ stack # << >> =>
         LET p == stack[Len(stack)]
             b == p.i_maxima + 1
         IN /\ Len(p.r_func[b]) = p.nang
            /\ IsPrefix(p.r_func[b], fr'.r_func[b])
            /\ IsPrefix(p.ias[b], fr'.ias[b])
            /\ IsPrefix(p.oas[b], fr'.oas[b])
            /\ IsPrefix(p.basin_ias[b], fr'.basin_ias[b])
            /\ \A k \in (Len(p.ias[b]) + 1)..Len(fr'.ias[b]) : fr'.ias[b][k] >= p.nang
            /\ \A k \in (Len(p.oas[b]) + 1)..Len(fr'.oas[b]) : fr'.oas[b][k] >= p.nang
            /\ \A o \in DOMAIN p.r_func :
                  o # b => /\ fr'.r_func[o] = p.r_func[o]
                           /\ fr'.ias[o] = p.ias[o]
                           /\ fr'.oas[o] = p.oas[o]
                           /\ fr'.basin_ias[o] = p.basin_ias[o]]_vars

\* Both basins of a call were refined and merged, the second while the first
\* held its merged results.
C15_Witness ==
    /\ pc = "done"
    /\ Len(fr.refined_ang) = 2
    /\ Len(fr.r_func[1]) > cfg.nang
    /\ Len(fr.r_func[2]) > cfg.nang
    /\ fr.ias[1] # << >>
    /\ fr.basin_ias[2] # << >>

\* The program is tracing a ray.
Tracing == pc \in {"while", "for", "gp", "capture", "afterfor", "iso", "record"}

\* C16 as it is stated: with refine=True no base direction of any basin is
\* traced once a refinement has begun.  The program breaks it: it refines
\* each basin right after that basin's base directions, before it traces the
\* base directions of the next basin.
C16_NoBaseDirectionAfterRefinement ==
    ~(Tracing /\ stack = << >> /\ hist.recursive > 0)

\* C16, amended: the refinement of a basin begins only when all the base
\* directions of that basin are resolved, and while a base direction of a
\* basin is traced no refinement of that basin or of a later one has begun:
\* exactly the basins before it have been refined.
C16_RefinementAfterOwnBaseDirections ==
    /\ (stack # << >> =>
          LET p == stack[1]
              b == p.i_maxima + 1
          IN /\ p.i_ang = p.nang
             /\ Len(p.oas[b]) + Len(p.ias[b]) = p.nang)
    /\ (Tracing /\ stack = << >> /\ fr.refine = RBool(TRUE) =>
          /\ hist.recursive = fr.i_maxima
          /\ Len(fr.refined_ang) = fr.i_maxima)

\* A base direction of the second basin is traced after the first basin was
\* refined.
C16_Witness ==
    /\ Tracing
    /\ stack = << >>
    /\ fr.i_maxima = 1
    /\ hist.recursive = 1
    /\ fr.refined_ang # << >>

\* C18: whatever ip and ea a QuadraticGlobalTool is made with, mu and
\* chemical_potential are -(ip + ea)/2, eta and chemical_hardness are ip - ea,
\* electronegativity is (ip + ea)/2, the negative of mu, ip and
\* ionization_potential are the given ip, and ea and electron_affinity are
\* the given ea.
C18_QuadraticProperties ==
    tool.made /\ tool.read # "none" =>
        LET I == tool.args.ip
            A == tool.args.ea
            v == tool.value
        IN CASE tool.read \in {"mu", "chemical_potential"} -> 2 * v = 0 - (I + A)
             [] tool.read \in {"eta", "chemical_hardness"} -> v = I - A
             [] tool.read = "electronegativity" -> 2 * v = I + A
             [] tool.read \in {"ip", "ionization_potential"} -> v = I
             [] tool.read \in {"ea", "electron_affinity"} -> v = A

\* The electronegativity of a tool with different, non-opposite ip and ea
\* was read.
C18_Witness ==
    /\ tool.made
    /\ tool.read = "electronegativity"
    /\ tool.value > 0
    /\ tool.args.ip # tool.args.ea

\* C19: on every ray and every grid that the beta-sphere filter of line 499
\* leaves, solve_for_basin_bnd_pt does not end in an error of its own
\* indexing, and when it has returned exactly one of found_watershed_on_ray
\* and is_ray_to_inf is set.  (is_ray_to_inf is false in every error the
\* tracer ends in, and true in the errors of solve_for_isosurface_pt.)
C19_TracerReturnsWithOneFlag ==
    /\ ~(pc = "error" /\ err = "IndexError" /\ ~ray.to_inf)
    /\ (pc \in {"iso", "record"} => ray.found # ray.to_inf)

\* Lines 335 and 366-372: the index at which the for loop declares the ray
\* escaping: the first sample (0-based) whose density is not above floor, or
\* the last index when there is none.
FloorCrossing(dens, floor) ==
    LET low == {k \in 1..Len(dens) : dens[k] <= floor}
    IN IF low = {} THEN Len(dens) - 1 ELSE SetMin(low) - 1

\* C20 as it is stated: when the ray escapes, the index handed to
\* solve_for_isosurface_pt is the floor-crossing index: the first sample whose
\* density is below dens_cutoff (strictly, or equal to it as line 335 tests),
\* or the last index of the ray.
C20_IndexIsFloorCrossing ==
    pc = "iso" =>
        \/ ray.index_iso = FloorCrossing(RayDensity(ray), cfg.dens_cutoff)
        \/ ray.index_iso = FloorCrossing(RayDensity(ray), cfg.dens_cutoff - 1)

\* C20, amended: when the ray escapes, the index handed to
\* solve_for_isosurface_pt is that of a sample of the tracer's current ray
\* whose density is nearest to iso_val (line 375 replaces the index of line
\* 370).
C20_IndexIsNearestToIso ==
    pc = "iso" =>
        /\ ray.to_inf
        /\ ray.index_iso \in 0..(Len(ray.rad_pts) - 1)
        /\ \A m \in 1..Len(ray.rad_pts) :
              Abs(Dens(ray.f, ray.rad_pts[ray.index_iso + 1]) - cfg.iso_val)
                 <= Abs(Dens(ray.f, ray.rad_pts[m]) - cfg.iso_val)

\* A ray escaped at a sample other than the nearest to iso_val, which is
\* neither the first nor the last of the ray.
C20_Witness ==
    /\ pc = "iso"
    /\ ray.index_iso # FloorCrossing(RayDensity(ray), cfg.dens_cutoff)
    /\ ray.index_iso # FloorCrossing(RayDensity(ray), cfg.dens_cutoff - 1)
    /\ ray.index_iso > 0
    /\ ray.index_iso < Len(ray.rad_pts) - 1

\* The program is at work for the basin fr.i_maxima: it traces one of its
\* rays (gradient paths, root finder) or records or refines it.
AtWorkForBasin == Tracing \/ pc \in {"ang", "refine"}

\* C21: in an invocation with refine = k, an integer, only basin k is traced:
\* the program is never at work for another basin (no gradient path and no
\* root finder is called for its rays), and the radial function of every other
\* basin stays all zeros and its OAS, IAS and neighbour-id lists stay empty.
C21_OnlyBasinKTraced ==
    fr.refine.kind = "int" =>
        /\ (AtWorkForBasin => fr.i_maxima = fr.refine.val)
        /\ \A b \in DOMAIN fr.r_func :
              b - 1 # fr.refine.val =>
                 /\ \A d \in DOMAIN fr.r_func[b] : fr.r_func[b][d] = 0
                 /\ fr.oas[b] = << >>
                 /\ fr.ias[b] = << >>
                 /\ fr.basin_ias[b] = << >>

\* A call with refine = 1 on two maxima returned: basin 1 has classified
\* directions and nonzero radii, basin 0 was passed over.
C21_Witness ==
    /\ pc = "done"
    /\ cfg.refine = RInt(1)
    /\ Len(maximas) = 2
    /\ Len(fr.oas[2]) + Len(fr.ias[2]) = fr.nang
    /\ \A d \in DOMAIN fr.r_func[2] : fr.r_func[2][d] > 0
    /\ "integrator" \in called

\* The end point y of the last gradient path of the ray lies inside the beta
\* sphere of another maximum and outside the capture radius of every other
\* maximum.
InBetaSphereOnly ==
    /\ cfg.beta.given
    /\ Len(cfg.beta.vals) = Len(maximas)
    /\ Len(ray.y) = Len(maximas)
    /\ \A m \in 1..Len(maximas) :
          m # fr.i_maxima + 1 => ray.y[m] >= CaptureRadius
    /\ \E m \in 1..Len(maximas) :
          m # fr.i_maxima + 1 /\ ray.y[m] < cfg.beta.vals[m]

\* C22: a sample whose gradient path ends inside the beta sphere of another
\* maximum, farther than the capture radius from it, and less than bnd_err
\* from the previous sample (so that the tracer sets found_watershed_on_ray)
\* resolves the ray as IAS: no error, and a neighbour whose beta sphere holds
\* the end point.
C22_BetaSphereCaptureResolvesIAS ==
    InBetaSphereOnly /\ ray.found =>
        /\ err = "none"
        /\ ray.basin_id # None
        /\ \E m \in 1..Len(maximas) :
              /\ m # fr.i_maxima + 1
              /\ ray.y[m] < cfg.beta.vals[m]
              /\ ray.basin_id \in {m - 1, m}

\* C23: when the gradient path of the resolving sample ended within the
\* capture radius of two or more other maxima, the neighbour recorded is the
\* first of them in the maxima sequence: the id is the place of that maximum
\* among the other maxima, counted from 1 as line 355 counts (C4 is about how
\* these ids number the maxima).
C23_FirstMatchingMaximum ==
    \A b \in DOMAIN fr.truth :
        \A k \in DOMAIN fr.truth[b] :
            Cardinality(fr.truth[b][k]) >= 2 =>
                fr.basin_ias[b][k] =
                    Cardinality({m \in 0..SetMin(fr.truth[b][k]) : m # b - 1})

\* A call returned in which a ray of the middle one of three maxima was
\* resolved by a gradient path that ended within the capture radius of both
\* other maxima.
C23_Witness ==
    /\ pc = "done"
    /\ Len(maximas) = 3
    /\ fr.truth[2] = <<{0, 2}>>
    /\ fr.basin_ias[2] = <<1>>

\* The for loop has just ended the walk at the sample i_ray for its density
\* (lines 366-371; line 375 has not yet replaced the index).
WalkEndedAtFloor == pc = "afterfor" /\ ray.index_iso # None

\* C24: the gradient path is started at every sample whose density is
\* dens_cutoff or more, and the walk is ended only at a sample whose density
\* is strictly below dens_cutoff.
C24_TracedAtOrAboveCutoff ==
    /\ (pc = "gp" => Dens(ray.f, ray.rad_pts[ray.i_ray + 1]) >= cfg.dens_cutoff)
    /\ (WalkEndedAtFloor =>
           Dens(ray.f, ray.rad_pts[ray.i_ray + 1]) < cfg.dens_cutoff)

\* C25: with no beta sphere configured, a step of gradient_path (of a ray or
\* of the maxima locator) after which the loop goes on has made one attempt
\* that did not converge, and the next attempt starts from the final point of
\* that attempt over the horizon (previous end, previous end + t_inc); the
\* error is raised after exactly max_tries attempts: the step that raises it
\* makes none, and no attempt is made after the max_tries-th.
C25_RestartFromLastPoint ==
    [][~cfg.beta.given /\ pc \in {"gp", "opt_gp"} =>
         /\ (pc' = pc =>
               /\ gp'.calls = gp.calls + 1
               /\ gp'.numb_times = gp.numb_times + 1
               /\ gp'.y0 = gp'.calls
               /\ gp'.t0 = gp.t1
               /\ gp'.t1 = gp.t1 + TInc)
         /\ (err' = "ConvergenceError" =>
               gp.calls = MaxTries /\ gp'.calls = MaxTries)
         /\ (gp.calls = MaxTries => err' = "ConvergenceError")
         /\ gp'.calls <= MaxTries]_vars

\* Without beta spheres a gradient path of a ray gave up: ten attempts, the
\* last of them from the final point of the ninth.
C25_Witness ==
    /\ ~cfg.beta.given
    /\ pc = "error"
    /\ err = "ConvergenceError"
    /\ ray.radial # << >>
    /\ gp.calls = MaxTries
    /\ gp.numb_times = MaxTries
    /\ gp.t0 = gp.t1 - TInc

\* The eigenvalues of the point of the last rank call.
RankedRow == eigen.eigenvals_[eigen.index + 1]

AllBaseDirectionsResolved ==
    /\ stack = << >>
    /\ fr.i_maxima = Len(maximas) - 1
    /\ fr.i_ang = fr.nang
    /\ \A b \in DOMAIN fr.r_func : Len(fr.oas[b]) + Len(fr.ias[b]) >= fr.nang

\* C27: a call with refine=True that has resolved the base directions of all
\* its basins (so that the same call with refine=False returns a surface)
\* does not end in an error of the refinement's convex hulls, whether or not
\* the IAS set or the OAS set of a basin is empty.
C27_RefineReturnsWheneverBaseDoes ==
    AllBaseDirectionsResolved /\ fr.refine = RBool(TRUE) =>
        ~(pc = "error" /\ err = "HullError")

\* C28: the index that qtaim_surface hands to solve_for_isosurface_pt (line
\* 507) is a position of the grid radial that the solver indexes (lines
\* 282-283), and the radius at that position is the radius of the sample of
\* the tracer's ray that the index was computed for (line 375).
C28_IndexOnTheSolversGrid ==
    pc = "iso" =>
        /\ ray.index_iso \in 0..(Len(ray.radial) - 1)
        /\ ray.radial[ray.index_iso + 1] = ray.rad_pts[ray.index_iso + 1]

\* C29: in one top-level call the maxima locator runs at most once and the
\* refinement never nests: at most one invocation is suspended, the
\* invocation it waits for has an integer refine and optimize_centers=False,
\* no recursive call is made unless refine is True, and a call with
\* refine=True that returns has made one recursive call per basin.
C29_LocatorOnceRefinementFlat ==
    /\ hist.locator <= 1
    /\ Len(stack) <= 1
    /\ (stack # << >> => fr.refine.kind = "int" /\ ~fr.optimize)
    /\ (cfg.refine # RBool(TRUE) => hist.recursive = 0)
    /\ (cfg.refine = RBool(TRUE) /\ pc = "done" => hist.recursive = Len(maximas))

\* A call with refine=True and optimize_centers=True on two maxima returned:
\* one run of the locator, two recursive calls.
C29_Witness ==
    /\ pc = "done"
    /\ cfg.refine = RBool(TRUE)
    /\ cfg.optimize
    /\ Len(maximas) = 2
    /\ hist.locator = 1
    /\ hist.recursive = 2

\* The ray was not refined, its densities fall strictly from each sample of
\* the grid to the next, and the index of line 375 is neither the first nor
\* the last position of the grid.
InteriorOnDecreasingRay ==
    /\ ray.to_inf
    /\ ray.index_iso # None
    /\ ray.rad_pts = ray.radial
    /\ \A k \in 1..(Len(ray.radial) - 1) :
          Dens(ray.f, ray.radial[k]) > Dens(ray.f, ray.radial[k + 1])
    /\ ray.index_iso > 0
    /\ ray.index_iso < Len(ray.radial) - 1

\* C30: on such a ray the two neighbours of the sample nearest to iso_val
\* bracket it, density(lower) >= iso_val >= density(upper), they are the
\* bracket that solve_for_isosurface_pt builds, and its check of line 286
\* does not raise.
C30_InteriorIndexBrackets ==
    InteriorOnDecreasingRay /\ (pc = "iso" \/ SolverRan) =>
        LET lower == ray.radial[ray.index_iso]
            upper == ray.radial[ray.index_iso + 2]
        IN /\ Dens(ray.f, lower) >= cfg.iso_val
           /\ cfg.iso_val >= Dens(ray.f, upper)
           /\ (SolverRan => /\ ray.l_bnd = lower
                            /\ ray.u_bnd = upper
                            /\ err # "BracketError"
                            /\ ray.bnd_pt # None)

\* On the grid of five radii the isosurface point of such a ray was solved
\* for around the middle sample, which lies below iso_val.
C30_Witness ==
    /\ InteriorOnDecreasingRay
    /\ SolverRan
    /\ ray.radial = GridFine
    /\ ray.index_iso = 2
    /\ Dens(ray.f, ray.radial[3]) < cfg.iso_val
    /\ ray.bnd_pt # None
    /\ pc = "record"

=============================================================================
